---- MODULE Spec2Model ----
(***************************************************************************)
(* Model of seo-migration/generate_inventories.py: the URL normaliser, the *)
(* old-site classifier, the old-equivalent matcher and the sequential      *)
(* main() pipeline that ingests sitemaps, GSC tables, RankMath redirects   *)
(* and ThirstyAffiliates links and builds the two inventories.             *)
(*                                                                         *)
(* Python strings are TLA+ strings; the helpers below work on them         *)
(* character by character (SubSeq, Len and \o are defined on strings).     *)
(* The em dash (U+2014) of the group names is written "~": it cannot       *)
(* appear in a TLA+ string, and like the em dash "~" sorts after every     *)
(* other character used here.                                              *)
(***************************************************************************)
EXTENDS Integers, Sequences, FiniteSets, TLC

VARIABLES
    pc,                 \* position of main(): the step being executed
    nrows,              \* number of input rows read so far
    old_sitemap_urls,   \* dict path -> url                       (line 224)
    gsc_folder,         \* index of the GSC folder being read     (line 255)
    gsc_statuses,       \* dict normalised url -> entry           (line 242)
    rankmath_redirects, \* dict source path -> rule               (line 273)
    ta_links,           \* dict slug -> link                      (line 298)
    new_file,           \* index of the new-site sitemap file     (line 324)
    new_urls,           \* dict path -> {url, sitemap_source}     (line 322)
    all_old,            \* dict path -> old-site record           (line 349)
    idx,                \* position of the running for-loop over a dict
    old_records,        \* rows written to old_site_inventory.csv
    new_records,        \* rows written to new_site_inventory.csv
    gsc_log,            \* history: GSC rows read, in order
    rm_log,             \* history: redirect rows read, in order
    new_log,            \* history: new-site <loc> values read, in order
    arg,                \* input of the function under test
    res,                \* its result
    step                \* how many times it has been applied

vars == <<pc, nrows, old_sitemap_urls, gsc_folder, gsc_statuses,
          rankmath_redirects, ta_links, new_file, new_urls, all_old, idx,
          old_records, new_records, gsc_log, rm_log, new_log, arg, res, step>>

pipeVars == <<pc, nrows, old_sitemap_urls, gsc_folder, gsc_statuses,
              rankmath_redirects, ta_links, new_file, new_urls, all_old, idx,
              old_records, new_records, gsc_log, rm_log, new_log>>

fnVars == <<arg, res, step>>

(***************************************************************************)
(* Bounds.                                                                 *)
(***************************************************************************)
MaxRows == 3        \* input rows read in one run, over all input files
MaxTokens == 3      \* tokens concatenated into one input string
MaxOldPaths == 2    \* old-site paths known to the matcher under test

(***************************************************************************)
(* Python str operations.                                                  *)
(***************************************************************************)
At(s, i) == SubSeq(s, i, i)

Take(s, n) == IF n >= Len(s) THEN s ELSE SubSeq(s, 1, n)

Drop(s, n) == IF n >= Len(s) THEN "" ELSE SubSeq(s, n + 1, Len(s))

StartsWith(s, p) == Len(p) <= Len(s) /\ SubSeq(s, 1, Len(p)) = p

EndsWith(s, p) == Len(p) <= Len(s) /\ SubSeq(s, Len(s) - Len(p) + 1, Len(s)) = p

MatchAt(s, p, i) == i + Len(p) - 1 <= Len(s) /\ SubSeq(s, i, i + Len(p) - 1) = p

Contains(s, p) == \E i \in 1..(Len(s) - Len(p) + 1) : MatchAt(s, p, i)

RECURSIVE FindFrom(_, _, _)
FindFrom(s, p, i) ==
    IF i + Len(p) - 1 > Len(s) THEN 0
    ELSE IF MatchAt(s, p, i) THEN i
    ELSE FindFrom(s, p, i + 1)

\* s.find(p) + 1: the 1-based position of the first occurrence, 0 if none
Find(s, p) == FindFrom(s, p, 1)

RECURSIVE RFindFrom(_, _, _)
RFindFrom(s, p, i) ==
    IF i < 1 THEN 0
    ELSE IF MatchAt(s, p, i) THEN i
    ELSE RFindFrom(s, p, i - 1)

\* s.rfind(p) + 1
RFind(s, p) == RFindFrom(s, p, Len(s) - Len(p) + 1)

RECURSIVE RStrip(_, _)
RStrip(s, c) ==
    IF Len(s) > 0 /\ At(s, Len(s)) = c THEN RStrip(Take(s, Len(s) - 1), c) ELSE s

RECURSIVE LStrip(_, _)
LStrip(s, c) ==
    IF Len(s) > 0 /\ At(s, 1) = c THEN LStrip(Drop(s, 1), c) ELSE s

Strip(s, c) == LStrip(RStrip(s, c), c)

\* s.strip(): the only whitespace of the modelled inputs is the space
StripWs(s) == Strip(s, " ")

UpperLetters == "ABCDEFGHIJKLMNOPQRSTUVWXYZ"

LowerLetters == "abcdefghijklmnopqrstuvwxyz"

\* str.lower() of one character
LowerOf == [c \in {At(UpperLetters, i) : i \in 1..Len(UpperLetters)} |->
               At(LowerLetters, Find(UpperLetters, c))]

LowerChar(c) == IF c \in DOMAIN LowerOf THEN LowerOf[c] ELSE c

RECURSIVE Lower(_)
Lower(s) == IF s = "" THEN "" ELSE LowerChar(At(s, 1)) \o Lower(Drop(s, 1))

\* the characters of the modelled strings in code-point order ("~" stands
\* for the em dash, the largest of them)
CodePointOrder ==
    " #()+-./0123456789:;=?@ABCDEFGHIJKLMNOPQRSTUVWXYZ[_abcdefghijklmnopqrstuvwxyz~"

Ord(c) == Find(CodePointOrder, c)

\* a < b for Python strings
RECURSIVE StrLess(_, _)
StrLess(a, b) ==
    IF b = "" THEN FALSE
    ELSE IF a = "" THEN TRUE
    ELSE IF At(a, 1) = At(b, 1) THEN StrLess(Drop(a, 1), Drop(b, 1))
    ELSE Ord(At(a, 1)) < Ord(At(b, 1))

(***************************************************************************)
(* urllib.parse.urlparse, as called by normalise_path and normalise_url.   *)
(* The result carries err = TRUE where urlparse raises ValueError (a "["   *)
(* in the host part with no "]"); inputs never hold a "]".                 *)
(***************************************************************************)
SchemeChars == LowerLetters \o UpperLetters \o "0123456789+-."

UsesParams == {"", "ftp", "hdl", "prospero", "http", "imap", "https", "shttp",
               "rtsp", "rtspu", "sip", "sips", "mms", "sftp", "tel"}

\* s.partition(p)[0]
Before(s, p) == IF Contains(s, p) THEN Take(s, Find(s, p) - 1) ELSE s

\* s.partition(p)[2]
After(s, p) == IF Contains(s, p) THEN Drop(s, Find(s, p) + Len(p) - 1) ELSE ""

\* s.rpartition(p)[2]
AfterLast(s, p) == IF Contains(s, p) THEN Drop(s, RFind(s, p) + Len(p) - 1) ELSE s

\* position of the first of "/", "?", "#" at or after position i, else Len+1
RECURSIVE NetlocEnd(_, _)
NetlocEnd(u, i) ==
    IF i > Len(u) THEN Len(u) + 1
    ELSE IF At(u, i) \in {"/", "?", "#"} THEN i
    ELSE NetlocEnd(u, i + 1)

\* _splitparams: the url up to the first ";" of its last path segment
SplitParams(url) ==
    Take(url, RFind(url, "/")) \o Before(Drop(url, RFind(url, "/")), ";")

\* the scheme test of urlsplit: a letter, then letters, digits, "+", "-", "."
HasScheme(url, i) ==
    /\ i > 1
    /\ Contains(LowerLetters \o UpperLetters, At(url, 1))
    /\ \A j \in 1..(i - 1) : Contains(SchemeChars, At(url, j))

\* the result of urlparse, from the parts that urlsplit found
ParseResult(scheme, hasNetloc, netloc, rest, query) ==
    [err      |-> hasNetloc /\ Contains(netloc, "["),
     scheme   |-> scheme,
     netloc   |-> netloc,
     path     |-> IF scheme \in UsesParams /\ Contains(rest, ";")
                  THEN SplitParams(rest) ELSE rest,
     query    |-> query,
     hostname |-> Lower(Before(AfterLast(netloc, "@"), ":"))]  \* "" for None

\* urlsplit after the netloc: the fragment is dropped, the query split off
SplitQuery(scheme, hasNetloc, netloc, u) ==
    ParseResult(scheme, hasNetloc, netloc,
                Before(Before(u, "#"), "?"), After(Before(u, "#"), "?"))

\* urlsplit after the scheme: a leading "//" opens the netloc
SplitNetloc(scheme, u) ==
    SplitQuery(scheme, StartsWith(u, "//"),
               IF StartsWith(u, "//") THEN Drop(Take(u, NetlocEnd(u, 3) - 1), 2)
               ELSE "",
               IF StartsWith(u, "//") THEN Drop(u, NetlocEnd(u, 3) - 1) ELSE u)

\* urlsplit: the scheme is what precedes the first ":", if it is one
SplitScheme(url) ==
    IF HasScheme(url, Find(url, ":"))
    THEN SplitNetloc(Lower(Before(url, ":")), After(url, ":"))
    ELSE SplitNetloc("", url)

urlparse(raw) == SplitScheme(LStrip(raw, " "))

(***************************************************************************)
(* The normaliser (lines 69-88).  "ValueError" is the exception that       *)
(* urlparse raises; no path or url has this value.                         *)
(***************************************************************************)
ValueError == "ValueError"

\* path.rstrip("/") unless the path is "/"
RStripNonRoot(path) == IF path # "/" THEN RStrip(path, "/") ELSE path

\* lines 72-78, on the parse of the url
path_of(parsed) ==
    IF parsed.err THEN ValueError
    ELSE RStripNonRoot(Lower(IF RStrip(parsed.path, "/") = "" THEN "/"
                             ELSE RStrip(parsed.path, "/")))

normalise_path(url) == path_of(urlparse(url))

\* lines 84-88, on the parse of the url
url_of(parsed) ==
    IF parsed.err THEN ValueError
    ELSE Lower(parsed.hostname \o RStripNonRoot(parsed.path))

normalise_url(url) == url_of(urlparse(url))

(***************************************************************************)
(* classify_old_url (lines 91-190): a chain of early returns.              *)
(***************************************************************************)
ListiclePrefixes == {"best-", "fastest-", "how-to-", "how-", "what-", "where-",
                     "can-you-", "are-"}

CategoryPaths == {"/electric-scooters", "/hoverboards", "/electric-skateboards",
                  "/electric-unicycles", "/skating", "/electric-bikes"}

InfoPaths == {"/about", "/contact", "/how-we-test", "/disclaimers",
              "/privacy-policy", "/privacy", "/terms-conditions", "/terms",
              "/editorial-policy", "/editorial", "/cookies",
              "/opt-out-preferences"}

\* re.match(r"^/electric-scooters/(reviews|articles|buying-guides)", p)
IsSubCategoryArchive(p) ==
    \E w \in {"reviews", "articles", "buying-guides"} :
        StartsWith(p, "/electric-scooters/" \o w)

\* parts = p.strip("/").split("/"); len(parts) == 1 and parts[0]
IsSingleSegment(p) == Strip(p, "/") # "" /\ ~Contains(Strip(p, "/"), "/")

\* lines 101-111
classify_tool(p) ==
    IF Contains(p, "finder") THEN <<"tool", "Tools ~ Finders">>
    ELSE IF Contains(p, "comparison") THEN <<"tool", "Tools ~ Comparison">>
    ELSE IF Contains(p, "deals") THEN <<"tool", "Tools ~ Deals">>
    ELSE IF Contains(p, "coupons") THEN <<"tool", "Tools ~ Coupons">>
    ELSE IF Contains(p, "calculator") THEN <<"tool", "Tools ~ Calculators">>
    ELSE <<"tool", "Tools ~ Other">>

\* the tail of the chain with the single-segment fallback tried before the
\* listicle prefixes
classify_tail_fallback_first(p) ==
    IF IsSingleSegment(p) THEN <<"post", "Posts ~ Other">>
    ELSE IF \E prefix \in ListiclePrefixes : StartsWith(p, "/" \o prefix)
    THEN <<"post", "Guides / Listicles">>
    ELSE <<"unknown", "Uncategorised">>

\* lines 177-190
classify_tail(p) ==
    IF \E prefix \in ListiclePrefixes : StartsWith(p, "/" \o prefix)
    THEN <<"post", "Guides / Listicles">>
    ELSE IF IsSingleSegment(p) THEN <<"post", "Posts ~ Other">>
    ELSE <<"unknown", "Uncategorised">>

classify_old_url(path) ==
    LET p == Lower(path) IN
    IF StartsWith(p, "/products/") THEN <<"product", "Products">>
    ELSE IF StartsWith(p, "/tool/") \/ StartsWith(p, "/tools/") THEN classify_tool(p)
    ELSE IF StartsWith(p, "/go/")
    THEN <<"affiliate-redirect", "Affiliate Redirects (/go/)">>
    ELSE IF StartsWith(p, "/recommends/")
    THEN <<"affiliate-redirect", "Affiliate Redirects (/recommends/)">>
    ELSE IF StartsWith(p, "/author/")
    THEN (IF Contains(p, "/page/")
          THEN <<"author-pagination", "Author Pages ~ Pagination">>
          ELSE <<"author", "Author Pages">>)
    ELSE IF p \in CategoryPaths THEN <<"category", "Category Archives">>
    ELSE IF IsSubCategoryArchive(p) THEN <<"archive", "Sub-category Archives">>
    ELSE IF Contains(p, "/page/") THEN <<"pagination", "Pagination">>
    ELSE IF StartsWith(p, "/compare/") THEN <<"compare", "Compare Pages">>
    ELSE IF StartsWith(p, "/deals/") THEN <<"deals", "Deals Pages">>
    ELSE IF p \in InfoPaths THEN <<"page", "Info / Legal Pages">>
    ELSE IF StartsWith(p, "/login") \/ StartsWith(p, "/log-in")
    THEN <<"page", "Login / Auth Pages">>
    ELSE IF StartsWith(p, "/blog/") THEN <<"post", "Posts (blog/ prefix ~ old URL)">>
    ELSE IF StartsWith(p, "/review/")
    THEN <<"post", "Posts (review/ prefix ~ old URL)">>
    ELSE IF EndsWith(p, "/feed") \/ EndsWith(p, "/feed/") \/ Contains(p, "feed/")
    THEN <<"feed", "RSS Feeds">>
    ELSE IF p = "/" \/ p = "" THEN <<"page", "Homepage">>
    ELSE IF EndsWith(p, "-review") \/ EndsWith(p, "-review/") THEN <<"post", "Reviews">>
    ELSE classify_tail(p)

(***************************************************************************)
(* classify_new_url (lines 193-212).                                       *)
(***************************************************************************)
source_map ==
    [f \in {"post-sitemap.xml", "page-sitemap.xml", "tool-sitemap.xml",
            "category-sitemap.xml", "compare-sitemap.xml",
            "comparison-sitemap.xml", "coupons-sitemap.xml",
            "local-sitemap.xml"} |->
        CASE f = "post-sitemap.xml"       -> <<"post", "Posts">>
          [] f = "page-sitemap.xml"       -> <<"page", "Pages">>
          [] f = "tool-sitemap.xml"       -> <<"tool", "Tools">>
          [] f = "category-sitemap.xml"   -> <<"category", "Category Archives">>
          [] f = "compare-sitemap.xml"    -> <<"compare", "Compare Pages">>
          [] f = "comparison-sitemap.xml" -> <<"comparison-cpt", "Curated Comparisons">>
          [] f = "coupons-sitemap.xml"    -> <<"coupons", "Coupons">>
          [] f = "local-sitemap.xml"      -> <<"local", "Local Sitemap">>]

classify_new_url(path, sitemap_source) ==
    IF StartsWith(sitemap_source, "products-sitemap") THEN <<"product", "Products">>
    ELSE IF sitemap_source \in DOMAIN source_map THEN source_map[sitemap_source]
    ELSE <<"unknown", "Uncategorised">>

(***************************************************************************)
(* find_old_equivalent (lines 608-705).  oldSitemapPaths and allOldPaths   *)
(* are the key sets of old_sitemap_urls and all_old.  None is written "".  *)
(***************************************************************************)
renames ==
    [s \in {"battery-charging-time-calculator", "electric-scooter-range-calculator",
            "electric-scooter-laws-by-state", "electric-bike-laws-by-state"} |->
        CASE s = "battery-charging-time-calculator"  -> "battery-charge-time-calculator"
          [] s = "electric-scooter-range-calculator" -> "electric-scooter-range-calculator"
          [] s = "electric-scooter-laws-by-state"    -> ""
          [] s = "electric-bike-laws-by-state"       -> ""]

\* p.split(sep)[1] for a p that starts with sep
SplitSecond(p, sep) == Before(Drop(p, Len(sep)), sep)

\* category_slug.rstrip("s") if category_slug.endswith("s") else category_slug
Singular(p, sep) == RStrip(RStrip(SplitSecond(p, sep), "/"), "s")

\* [old_p] if old_p is a known old path, else []
IfOld(old_p, oldSitemapPaths, allOldPaths) ==
    IF old_p \in oldSitemapPaths \/ old_p \in allOldPaths THEN <<old_p>> ELSE <<>>

\* lines 614-629
tools_candidates(p, oldSitemapPaths, allOldPaths) ==
    LET slug == Drop(p, 7) IN
    IF ~StartsWith(p, "/tools/") THEN <<>>
    ELSE IfOld("/tool/" \o slug, oldSitemapPaths, allOldPaths)
         \o (IF slug \in DOMAIN renames /\ renames[slug] # ""
             THEN IfOld("/tool/" \o renames[slug], oldSitemapPaths, allOldPaths)
             ELSE <<>>)

\* lines 632-665: the exact-path mappings
FixedMappings ==
    <<<<"/reviews", "/electric-scooters/reviews">>,
      <<"/articles", "/electric-scooters/articles">>,
      <<"/buying-guides", "/electric-scooters/buying-guides">>,
      <<"/editorial", "/editorial-policy">>,
      <<"/terms", "/terms-conditions">>,
      <<"/privacy", "/privacy-policy">>>>

RECURSIVE fixed_candidates(_, _, _, _)
fixed_candidates(p, oldSitemapPaths, allOldPaths, k) ==
    IF k > Len(FixedMappings) THEN <<>>
    ELSE (IF p = FixedMappings[k][1]
          THEN IfOld(FixedMappings[k][2], oldSitemapPaths, allOldPaths) ELSE <<>>)
         \o fixed_candidates(p, oldSitemapPaths, allOldPaths, k + 1)

\* the matcher with the finder mapping of lines 677-681 tried last
find_old_equivalent_finder_last(new_path, oldSitemapPaths, allOldPaths) ==
    LET p == Lower(new_path) IN
    tools_candidates(p, oldSitemapPaths, allOldPaths)
    \o fixed_candidates(p, oldSitemapPaths, allOldPaths, 1)
    \o (IF StartsWith(p, "/deals/")
        THEN IfOld("/tool/" \o Singular(p, "/deals/") \o "-deals",
                   oldSitemapPaths, allOldPaths)
        ELSE <<>>)
    \o (IF p = "/tools/electric-scooter-range-calculator"
        THEN IfOld("/electric-scooter-range-calculator", oldSitemapPaths, allOldPaths)
        ELSE <<>>)
    \o (IF StartsWith(p, "/coupons/")
        THEN IfOld("/tool/" \o Singular(p, "/coupons/") \o "-coupons",
                   oldSitemapPaths, allOldPaths)
        ELSE <<>>)
    \o (IF StartsWith(p, "/compare/")
        THEN IfOld("/tool/" \o Singular(p, "/compare/") \o "-comparison",
                   oldSitemapPaths, allOldPaths)
        ELSE <<>>)
    \o (IF EndsWith(p, "-finder") /\ ~StartsWith(p, "/tool")
        THEN IfOld("/tool/" \o Strip(p, "/"), oldSitemapPaths, allOldPaths)
        ELSE <<>>)

find_old_equivalent(new_path, oldSitemapPaths, allOldPaths) ==
    LET p == Lower(new_path) IN
    tools_candidates(p, oldSitemapPaths, allOldPaths)
    \o fixed_candidates(p, oldSitemapPaths, allOldPaths, 1)
    \o (IF StartsWith(p, "/deals/")
        THEN IfOld("/tool/" \o Singular(p, "/deals/") \o "-deals",
                   oldSitemapPaths, allOldPaths)
        ELSE <<>>)
    \o (IF EndsWith(p, "-finder") /\ ~StartsWith(p, "/tool")
        THEN IfOld("/tool/" \o Strip(p, "/"), oldSitemapPaths, allOldPaths)
        ELSE <<>>)
    \o (IF p = "/tools/electric-scooter-range-calculator"
        THEN IfOld("/electric-scooter-range-calculator", oldSitemapPaths, allOldPaths)
        ELSE <<>>)
    \o (IF StartsWith(p, "/coupons/")
        THEN IfOld("/tool/" \o Singular(p, "/coupons/") \o "-coupons",
                   oldSitemapPaths, allOldPaths)
        ELSE <<>>)
    \o (IF StartsWith(p, "/compare/")
        THEN IfOld("/tool/" \o Singular(p, "/compare/") \o "-comparison",
                   oldSitemapPaths, allOldPaths)
        ELSE <<>>)

(***************************************************************************)
(* Python dicts: a sequence of [k, v] entries in insertion order; storing  *)
(* under an existing key keeps the key's position.                         *)
(***************************************************************************)
Keys(d) == {d[i].k : i \in 1..Len(d)}

DictHas(d, k) == \E i \in 1..Len(d) : d[i].k = k

DictIdx(d, k) == CHOOSE i \in 1..Len(d) : d[i].k = k

DictGet(d, k) == d[DictIdx(d, k)].v

\* d.setdefault(k, v): an existing entry is kept
DictPutIfAbsent(d, k, v) ==
    IF DictHas(d, k) THEN d ELSE Append(d, [k |-> k, v |-> v])

\* d[k] = v
DictPut(d, k, v) ==
    IF DictHas(d, k) THEN [d EXCEPT ![DictIdx(d, k)].v = v]
    ELSE Append(d, [k |-> k, v |-> v])

(***************************************************************************)
(* Inputs.  A csv.DictReader row is a record of its column values; a row   *)
(* shorter than the header has None in the columns it lacks.               *)
(***************************************************************************)
None == "<None>"

\* <loc> values of the old-site sitemaps
OldSitemapLocs ==
    {"https://eridehero.com/foo", "https://eridehero.com/sitemap.xml",
     "http://[eridehero.com/bar"}

\* lines 244-253 (the en dash of "Discovered ..." is written "-")
gsc_folders ==
    <<<<"Indexed pages", "indexed">>,
      <<"Page with redirect", "redirect">>,
      <<"Not found (404)", "404">>,
      <<"Excluded by noindex tag", "noindex">>,
      <<"Crawled - currently not indexed", "crawled-not-indexed">>,
      <<"Discovered - currently not indexed", "discovered-not-indexed">>,
      <<"Blocked by robots.txt", "blocked-robots">>,
      <<"Alternative page with proper canonical tag", "canonical-alt">>>>

\* the GSC folders that hold a Table.csv; the others are missing
GscFoldersWithData == {"Indexed pages", "Not found (404)"}

\* rows of a GSC Table.csv
GscRows ==
    {[URL |-> "https://eridehero.com/foo", crawled |-> "2024-01-01"],
     [URL |-> "https://eridehero.com/foo?unapproved=1", crawled |-> "2024-01-02"],
     [URL |-> "https://www.eridehero.com/Foo/", crawled |-> "2024-01-03"],
     [URL |-> "https://eridehero.com/foo?utm_source=x", crawled |-> "2024-01-04"],
     [URL |-> "https://eridehero.com/?s=x", crawled |-> "2024-01-05"],
     [URL |-> "https://eridehero.com/?utm_source=x&ref=y", crawled |-> "2024-01-06"],
     [URL |-> "https://webmail.eridehero.com/foo", crawled |-> "2024-01-07"],
     [URL |-> "https://eridehero.com/foo", crawled |-> None]}

\* rows of a RankMath redirections export
RedirectRows ==
    {[source |-> "/foo/", destination |-> "/d1", type |-> "301", status |-> "active"],
     [source |-> "Foo", destination |-> "/d2", type |-> "302", status |-> "active"],
     [source |-> "", destination |-> "/d1", type |-> "301", status |-> "active"],
     [source |-> "/foo", destination |-> None, type |-> None, status |-> None]}

\* rows of a ThirstyAffiliates export
AffiliateRows ==
    {[Slug |-> "Some-Brand", Name |-> "Some Brand", dest |-> "https://brand.example/a"],
     [Slug |-> "some-brand", Name |-> None, dest |-> None]}

\* the *.xml files of the new-site folder
NewSitemapFileNames == {"post-sitemap.xml", "page-sitemap.xml"}

\* <loc> values of the new-site sitemaps
NewSitemapLocs ==
    {"https://staging.eridehero.com/Foo/", "https://staging.eridehero.com/sitemap.xml"}

(***************************************************************************)
(* Sorting (sorted() on strings compares code points).                     *)
(***************************************************************************)
RECURSIVE SortStrings(_)
SortStrings(S) ==
    IF S = {} THEN <<>>
    ELSE LET m == CHOOSE x \in S : \A y \in S : ~StrLess(y, x)
         IN  <<m>> \o SortStrings(S \ {m})

RECURSIVE Join(_, _)
Join(seq, sep) ==
    IF seq = <<>> THEN ""
    ELSE IF Len(seq) = 1 THEN seq[1]
    ELSE seq[1] \o sep \o Join(Tail(seq), sep)

\* sorted(new_sitemap_files), line 324
new_sitemap_files == SortStrings(NewSitemapFileNames)

(***************************************************************************)
(* Steps 1-5 of main(): reading the inputs.                                *)
(***************************************************************************)
Abort == /\ pc' = "aborted"
         /\ UNCHANGED <<old_sitemap_urls, gsc_folder, gsc_statuses,
                        rankmath_redirects, ta_links, new_file, new_urls, all_old,
                        idx, old_records, new_records, gsc_log, rm_log, new_log>>

\* lines 234-236: one <loc> of an old-site sitemap
ParseOldSitemapUrl(loc) ==
    /\ pc = "old_sitemaps"
    /\ nrows < MaxRows
    /\ nrows' = nrows + 1
    /\ LET u == StripWs(loc)
           p == normalise_path(u)
       IN  IF p = ValueError THEN Abort
           ELSE /\ old_sitemap_urls' = DictPut(old_sitemap_urls, p, u)
                /\ UNCHANGED <<pc, gsc_folder, gsc_statuses, rankmath_redirects,
                               ta_links, new_file, new_urls, all_old, idx,
                               old_records, new_records, gsc_log, rm_log, new_log>>
    /\ UNCHANGED fnVars

\* line 238: the old-site sitemaps are read
OldSitemapsDone ==
    /\ pc = "old_sitemaps"
    /\ pc' = "gsc"
    /\ gsc_folder' = 1
    /\ UNCHANGED <<nrows, old_sitemap_urls, gsc_statuses, rankmath_redirects,
                   ta_links, new_file, new_urls, all_old, idx, old_records,
                   new_records, gsc_log, rm_log, new_log>>
    /\ UNCHANGED fnVars

\* lines 261-267: only the first entry of a normalised url is stored
store_gsc(statuses, norm, entry) == DictPutIfAbsent(statuses, norm, entry)

\* lines 61-65 and 258-267: one row of the Table.csv of the current folder
ParseGscRow(row) ==
    /\ pc = "gsc"
    /\ gsc_folders[gsc_folder][1] \in GscFoldersWithData
    /\ nrows < MaxRows
    /\ nrows' = nrows + 1
    /\ IF row.URL = None \/ row.crawled = None THEN Abort
       ELSE LET url     == StripWs(row.URL)
                crawled == StripWs(row.crawled)
                norm    == normalise_url(url)
                entry   == [status |-> gsc_folders[gsc_folder][2],
                            last_crawled |-> crawled, raw_url |-> url]
            IN  IF url = ""
                THEN UNCHANGED <<pc, old_sitemap_urls, gsc_folder, gsc_statuses,
                                 rankmath_redirects, ta_links, new_file, new_urls,
                                 all_old, idx, old_records, new_records, gsc_log,
                                 rm_log, new_log>>
                ELSE IF norm = ValueError THEN Abort
                ELSE /\ gsc_statuses' = store_gsc(gsc_statuses, norm, entry)
                     /\ gsc_log' = Append(gsc_log, entry)
                     /\ UNCHANGED <<pc, old_sitemap_urls, gsc_folder,
                                    rankmath_redirects, ta_links, new_file, new_urls,
                                    all_old, idx, old_records, new_records, rm_log,
                                    new_log>>
    /\ UNCHANGED fnVars

\* line 255: the next GSC folder, or on to step 3
GscNextFolder ==
    /\ pc = "gsc"
    /\ IF gsc_folder < Len(gsc_folders)
       THEN gsc_folder' = gsc_folder + 1 /\ pc' = pc
       ELSE gsc_folder' = gsc_folder /\ pc' = "rankmath"
    /\ UNCHANGED <<nrows, old_sitemap_urls, gsc_statuses, rankmath_redirects,
                   ta_links, new_file, new_urls, all_old, idx, old_records,
                   new_records, gsc_log, rm_log, new_log>>
    /\ UNCHANGED fnVars

\* line 274: os.listdir(OLD_DIR) raises FileNotFoundError when the old-site
\* folder is missing (then no old-site input was read either)
ListOldDirFails ==
    /\ pc = "rankmath"
    /\ nrows = 0
    /\ Abort
    /\ UNCHANGED nrows
    /\ UNCHANGED fnVars

\* the store of lines 288-293 made first-write-wins
store_redirect_first_wins(redirects, key, rule) == DictPutIfAbsent(redirects, key, rule)

\* lines 288-293: a later rule of the same source path replaces the earlier
store_redirect(redirects, key, rule) == DictPut(redirects, key, rule)

\* lines 280-293: one row of a redirections export
ParseRedirectRow(row) ==
    /\ pc = "rankmath"
    /\ nrows < MaxRows
    /\ nrows' = nrows + 1
    /\ IF None \in {row.source, row.destination, row.type, row.status} THEN Abort
       ELSE LET source   == StripWs(row.source)
                src_path == "/" \o Strip(source, "/")
                rule     == [source_raw |-> source,
                             destination |-> StripWs(row.destination),
                             type |-> StripWs(row.type),
                             status |-> StripWs(row.status)]
            IN  IF source = ""
                THEN UNCHANGED <<pc, old_sitemap_urls, gsc_folder, gsc_statuses,
                                 rankmath_redirects, ta_links, new_file, new_urls,
                                 all_old, idx, old_records, new_records, gsc_log,
                                 rm_log, new_log>>
                ELSE /\ rankmath_redirects' =
                            store_redirect(rankmath_redirects, Lower(src_path), rule)
                     /\ rm_log' = Append(rm_log, rule)
                     /\ UNCHANGED <<pc, old_sitemap_urls, gsc_folder, gsc_statuses,
                                    ta_links, new_file, new_urls, all_old, idx,
                                    old_records, new_records, gsc_log, new_log>>
    /\ UNCHANGED fnVars

\* line 294: the redirect exports are read
RedirectsDone ==
    /\ pc = "rankmath"
    /\ pc' = "ta"
    /\ UNCHANGED <<nrows, old_sitemap_urls, gsc_folder, gsc_statuses,
                   rankmath_redirects, ta_links, new_file, new_urls, all_old, idx,
                   old_records, new_records, gsc_log, rm_log, new_log>>
    /\ UNCHANGED fnVars

\* lines 305-317: one row of a ThirstyAffiliates export; the categories and
\* geolocation columns are absent from the export, so both read as ""
ParseAffiliateRow(row) ==
    /\ pc = "ta"
    /\ nrows < MaxRows
    /\ nrows' = nrows + 1
    /\ IF None \in {row.Slug, row.Name, row.dest} THEN Abort
       ELSE LET slug == StripWs(row.Slug)
                link == [name |-> StripWs(row.Name),
                         destination_url |-> StripWs(row.dest),
                         category |-> "", has_geo_links |-> "no"]
            IN  /\ ta_links' = IF slug = "" THEN ta_links
                               ELSE DictPut(ta_links, slug, link)
                /\ UNCHANGED <<pc, old_sitemap_urls, gsc_folder, gsc_statuses,
                               rankmath_redirects, new_file, new_urls, all_old, idx,
                               old_records, new_records, gsc_log, rm_log, new_log>>
    /\ UNCHANGED fnVars

\* line 318: the affiliate exports are read
AffiliatesDone ==
    /\ pc = "ta"
    /\ pc' = "new_sitemaps"
    /\ new_file' = 1
    /\ UNCHANGED <<nrows, old_sitemap_urls, gsc_folder, gsc_statuses,
                   rankmath_redirects, ta_links, new_urls, all_old, idx,
                   old_records, new_records, gsc_log, rm_log, new_log>>
    /\ UNCHANGED fnVars

\* line 323: os.listdir(NEW_DIR) raises FileNotFoundError when the new-site
\* folder is missing
ListNewDirFails ==
    /\ pc = "new_sitemaps"
    /\ new_file = 1
    /\ new_log = <<>>
    /\ Abort
    /\ UNCHANGED nrows
    /\ UNCHANGED fnVars

\* the store of lines 335-338 made first-file-wins
store_new_first_wins(urls, p, entry) == DictPutIfAbsent(urls, p, entry)

\* lines 335-338: the entry of a path is replaced by every later mention
store_new(urls, p, entry) == DictPut(urls, p, entry)

\* lines 330-338: one <loc> of the current new-site sitemap file
ParseNewSitemapUrl(loc) ==
    /\ pc = "new_sitemaps"
    /\ nrows < MaxRows
    /\ nrows' = nrows + 1
    /\ LET fname == new_sitemap_files[new_file]
           u     == StripWs(loc)
           p     == normalise_path(u)
       IN  IF p = ValueError THEN Abort
           ELSE /\ new_log' = Append(new_log, [file |-> fname, url |-> u])
                /\ new_urls' =
                       IF EndsWith(p, ".xml") \/ EndsWith(p, ".kml") THEN new_urls
                       ELSE store_new(new_urls, p, [url |-> u, sitemap_source |-> fname])
                /\ UNCHANGED <<pc, old_sitemap_urls, gsc_folder, gsc_statuses,
                               rankmath_redirects, ta_links, new_file, all_old, idx,
                               old_records, new_records, gsc_log, rm_log>>
    /\ UNCHANGED fnVars

\* line 324: the next new-site sitemap file, or on to step 6
NewNextFile ==
    /\ pc = "new_sitemaps"
    /\ IF new_file < Len(new_sitemap_files)
       THEN new_file' = new_file + 1 /\ pc' = pc /\ idx' = idx
       ELSE new_file' = new_file /\ pc' = "merge_sitemap" /\ idx' = 1
    /\ UNCHANGED <<nrows, old_sitemap_urls, gsc_folder, gsc_statuses,
                   rankmath_redirects, ta_links, new_urls, all_old, old_records,
                   new_records, gsc_log, rm_log, new_log>>
    /\ UNCHANGED fnVars

(***************************************************************************)
(* Step 6 of main(): building the old-site inventory.                      *)
(***************************************************************************)
\* lines 353-370
NewRecord(path, raw_url) ==
    [path |-> path, raw_url |-> raw_url, sources |-> {}, page_type |-> "",
     group |-> "", gsc_status |-> "", gsc_last_crawled |-> "",
     has_rankmath_redirect |-> "", rankmath_dest |-> "", rankmath_type |-> "",
     is_thirstyaffiliate |-> "", ta_name |-> "", ta_dest_url |-> "",
     exists_on_new_site |-> "", new_site_path |-> "", notes |-> ""]

\* lines 351-371: all_old after ensure_record(path, raw_url)
ensure_record(all, path, raw_url) ==
    DictPutIfAbsent(all, path, NewRecord(path, raw_url))

\* rec["sources"].add(tag) on the record of path
AddSource(all, path, tag) ==
    [all EXCEPT ![DictIdx(all, path)].v.sources = @ \cup {tag}]

\* lines 374-376
MergeSitemapEntry ==
    /\ pc = "merge_sitemap"
    /\ idx <= Len(old_sitemap_urls)
    /\ LET e == old_sitemap_urls[idx]
       IN  all_old' = AddSource(ensure_record(all_old, e.k, e.v), e.k, "sitemap")
    /\ idx' = idx + 1
    /\ UNCHANGED <<pc, nrows, old_sitemap_urls, gsc_folder, gsc_statuses,
                   rankmath_redirects, ta_links, new_file, new_urls, old_records,
                   new_records, gsc_log, rm_log, new_log>>
    /\ UNCHANGED fnVars

\* the end of a merge loop: on to the next one
LoopDone(here, len, next) ==
    /\ pc = here
    /\ idx > len
    /\ pc' = next
    /\ idx' = 1
    /\ UNCHANGED <<nrows, old_sitemap_urls, gsc_folder, gsc_statuses,
                   rankmath_redirects, ta_links, new_file, new_urls, all_old,
                   old_records, new_records, gsc_log, rm_log, new_log>>
    /\ UNCHANGED fnVars

\* line 374: the loop over old_sitemap_urls is exhausted
MergeSitemapDone == LoopDone("merge_sitemap", Len(old_sitemap_urls), "merge_gsc")

\* s.split(sep) for a one-character sep
RECURSIVE SplitOn(_, _)
SplitOn(s, sep) ==
    IF Contains(s, sep)
    THEN <<Take(s, Find(s, sep) - 1)>> \o SplitOn(Drop(s, Find(s, sep)), sep)
    ELSE <<s>>

\* the names that parse_qs keeps from the fields: those with an "=" and a
\* non-blank value, each once, in order of first appearance
RECURSIVE QsKeysFrom(_, _)
QsKeysFrom(fields, seen) ==
    IF fields = <<>> THEN <<>>
    ELSE LET f     == Head(fields)
             name  == Take(f, Find(f, "=") - 1)
             value == Drop(f, Find(f, "="))
         IN  IF Contains(f, "=") /\ value # "" /\ name \notin seen
             THEN <<name>> \o QsKeysFrom(Tail(fields), seen \cup {name})
             ELSE QsKeysFrom(Tail(fields), seen)

\* list(parse_qs(query).keys()); inputs hold no "+" and no "%"
parse_qs_keys(query) ==
    IF query = "" THEN <<>> ELSE QsKeysFrom(SplitOn(query, "&"), {})

Range(seq) == {seq[i] : i \in 1..Len(seq)}

\* lines 401-403
junk_params == {"utm_source", "utm_medium", "utm_campaign", "affiliate", "gspk",
                "gsxid", "trk", "ref", "fbclid", "stream"}

\* lines 388-405 without the moderation test of line 392
is_gsc_junk_no_moderation(raw) ==
    LET parsed == urlparse(raw)
        path   == normalise_path(raw)
        qs     == Range(parse_qs_keys(parsed.query))
    IN  \/ Contains(path, "ck/a?") \/ Contains(raw, "cx_tag_filter")
        \/ /\ parsed.path = "/"
           /\ parsed.query # ""
           /\ \/ "s" \in qs \/ "page_posts" \in qs
              \/ (qs # {} /\ qs \subseteq junk_params)

\* lines 388-405: the entries that the merge skips
is_gsc_junk(raw) ==
    LET parsed == urlparse(raw)
        path   == normalise_path(raw)
        qs     == Range(parse_qs_keys(parsed.query))
    IN  \/ Contains(path, "ck/a?") \/ Contains(raw, "cx_tag_filter")
        \/ Contains(raw, "unapproved=") \/ Contains(raw, "moderation-hash=")
        \/ /\ parsed.path = "/"
           /\ parsed.query # ""
           /\ \/ "s" \in qs \/ "page_posts" \in qs
              \/ (qs # {} /\ qs \subseteq junk_params)

\* lines 410-412
set_gsc_status(rec, data) ==
    IF data.status = "indexed" \/ rec.gsc_status = ""
    THEN [rec EXCEPT !.gsc_status = data.status,
                     !.gsc_last_crawled = data.last_crawled]
    ELSE rec

\* lines 380-412: all_old after one entry of gsc_statuses
merge_gsc_entry(all, data) ==
    LET raw  == data.raw_url
        host == urlparse(raw).hostname
        path == normalise_path(raw)
        all1 == AddSource(ensure_record(all, path, raw), path, "gsc:" \o data.status)
    IN  IF host \notin {"eridehero.com", "www.eridehero.com"} THEN all
        ELSE IF is_gsc_junk(raw) THEN all
        ELSE [all1 EXCEPT ![DictIdx(all1, path)].v = set_gsc_status(@, data)]

\* lines 379-412
MergeGscEntry ==
    /\ pc = "merge_gsc"
    /\ idx <= Len(gsc_statuses)
    /\ all_old' = merge_gsc_entry(all_old, gsc_statuses[idx].v)
    /\ idx' = idx + 1
    /\ UNCHANGED <<pc, nrows, old_sitemap_urls, gsc_folder, gsc_statuses,
                   rankmath_redirects, ta_links, new_file, new_urls, old_records,
                   new_records, gsc_log, rm_log, new_log>>
    /\ UNCHANGED fnVars

\* line 379: the loop over gsc_statuses is exhausted
MergeGscDone == LoopDone("merge_gsc", Len(gsc_statuses), "merge_rankmath")

\* lines 418-420
attach_redirect(rec, rdata) ==
    [rec EXCEPT !.has_rankmath_redirect = "yes",
                !.rankmath_dest = rdata.destination,
                !.rankmath_type = rdata.type]

\* lines 415-420
MergeRedirectEntry ==
    /\ pc = "merge_rankmath"
    /\ idx <= Len(rankmath_redirects)
    /\ LET e    == rankmath_redirects[idx]
           all1 == AddSource(ensure_record(all_old, e.k, ""), e.k,
                             "rankmath-redirect-source")
       IN  all_old' = [all1 EXCEPT ![DictIdx(all1, e.k)].v = attach_redirect(@, e.v)]
    /\ idx' = idx + 1
    /\ UNCHANGED <<pc, nrows, old_sitemap_urls, gsc_folder, gsc_statuses,
                   rankmath_redirects, ta_links, new_file, new_urls, old_records,
                   new_records, gsc_log, rm_log, new_log>>
    /\ UNCHANGED fnVars

\* line 415: the loop over rankmath_redirects is exhausted
MergeRedirectDone == LoopDone("merge_rankmath", Len(rankmath_redirects), "merge_ta")

\* line 424
affiliate_path(slug) == "/recommends/" \o slug

\* lines 423-429
MergeAffiliateEntry ==
    /\ pc = "merge_ta"
    /\ idx <= Len(ta_links)
    /\ LET e    == ta_links[idx]
           path == affiliate_path(e.k)
           all1 == AddSource(ensure_record(all_old, path, ""), path,
                             "thirstyaffiliates")
       IN  all_old' = [all1 EXCEPT ![DictIdx(all1, path)].v =
                          [@ EXCEPT !.is_thirstyaffiliate = "yes",
                                    !.ta_name = e.v.name,
                                    !.ta_dest_url = e.v.destination_url]]
    /\ idx' = idx + 1
    /\ UNCHANGED <<pc, nrows, old_sitemap_urls, gsc_folder, gsc_statuses,
                   rankmath_redirects, ta_links, new_file, new_urls, old_records,
                   new_records, gsc_log, rm_log, new_log>>
    /\ UNCHANGED fnVars

\* line 423: the loop over ta_links is exhausted
MergeAffiliateDone == LoopDone("merge_ta", Len(ta_links), "enrich")

\* lines 454-492: the notes of a record
record_notes(path, raw_url) ==
    LET qs_keys  == parse_qs_keys(urlparse(raw_url).query)
        base     == Take(path, RFind(path, "/1000") - 1)
        browsers == <<"firefox", "chrome", "edge", "crios", "webkit", "opr",
                      "version">>
        hits     == {i \in 1..Len(browsers) : EndsWith(path, "/" \o browsers[i])}
        first    == CHOOSE i \in hits : \A j \in hits : i <= j
    IN  (IF EndsWith(path, "/1000")
         THEN <<"Has /1000 suffix (Oxygen Builder artifact)">>
              \o (IF DictHas(new_urls, base)
                  THEN <<"Base path " \o base \o " exists on new site">> ELSE <<>>)
         ELSE <<>>)
        \o (IF Contains(path, "//") /\ ~StartsWith(path, "//")
            THEN <<"Contains double-slash (malformed URL)">> ELSE <<>>)
        \o (IF "ids" \in Range(qs_keys) THEN <<"Comparison tool URL with product IDs">>
            ELSE IF "tag" \in Range(qs_keys) THEN <<"Has affiliate ?tag= parameter">>
            ELSE IF "ref" \in Range(qs_keys) THEN <<"Has ?ref= tracking parameter">>
            ELSE IF qs_keys # <<>> THEN <<"Has query params: " \o Join(qs_keys, ", ")>>
            ELSE <<>>)
        \o (IF EndsWith(path, "/opt")
            THEN <<"Product URL with /OPT/ suffix (likely Oxygen)">> ELSE <<>>)
        \o (IF hits # {}
            THEN <<"Product URL with /" \o browsers[first] \o "/ suffix (bot/junk)">>
            ELSE <<>>)

\* lines 446-451
exists_on_new_site(path) == DictHas(new_urls, path)

\* lines 433-495: one record classified and enriched
enrich(path, rec) ==
    LET late == rec.has_rankmath_redirect # "yes" /\ DictHas(rankmath_redirects, path)
        rec1 == IF late THEN attach_redirect(rec, DictGet(rankmath_redirects, path))
                ELSE rec
    IN  [rec1 EXCEPT !.page_type = classify_old_url(path)[1],
                     !.group = classify_old_url(path)[2],
                     !.exists_on_new_site =
                         IF exists_on_new_site(path) THEN "yes" ELSE "no",
                     !.new_site_path = IF exists_on_new_site(path) THEN path ELSE @,
                     !.notes = Join(record_notes(path, rec.raw_url), "; "),
                     !.sources = Join(SortStrings(rec.sources), ", ")]

OldLess(a, b) ==
    StrLess(a.group, b.group) \/ (a.group = b.group /\ StrLess(a.path, b.path))

\* sorted(all_old.values(), key=lambda r: (r["group"], r["path"])), line 498
RECURSIVE SortOldRecords(_)
SortOldRecords(S) ==
    IF S = {} THEN <<>>
    ELSE LET m == CHOOSE x \in S : \A y \in S : ~OldLess(y, x)
         IN  <<m>> \o SortOldRecords(S \ {m})

\* lines 432-514: every record classified and enriched, the rows sorted and
\* written (the writer drops raw_url)
ClassifyAndEnrich ==
    /\ pc = "enrich"
    /\ all_old' = [i \in 1..Len(all_old) |->
                      [k |-> all_old[i].k, v |-> enrich(all_old[i].k, all_old[i].v)]]
    /\ old_records' = SortOldRecords({all_old'[i].v : i \in 1..Len(all_old)})
    /\ pc' = "new_inventory"
    /\ UNCHANGED <<nrows, old_sitemap_urls, gsc_folder, gsc_statuses,
                   rankmath_redirects, ta_links, new_file, new_urls, idx,
                   new_records, gsc_log, rm_log, new_log>>
    /\ UNCHANGED fnVars

(***************************************************************************)
(* Step 7 of main(): building the new-site inventory.                      *)
(***************************************************************************)
\* line 524 with the lookup made among the raw URLs instead of the paths
has_old_by_raw_url(path) ==
    \E i \in 1..Len(old_sitemap_urls) : old_sitemap_urls[i].v = path

\* line 524
has_old(path) == DictHas(old_sitemap_urls, path)

\* lines 521-543: the row of one new-site path
new_record(path, data) ==
    LET candidates == find_old_equivalent(path, Keys(old_sitemap_urls), Keys(all_old))
        old_match  == IF ~has_old(path) /\ candidates # <<>> THEN candidates[1] ELSE ""
    IN  [path |-> path, staging_url |-> data.url,
         page_type |-> classify_new_url(path, data.sitemap_source)[1],
         group |-> classify_new_url(path, data.sitemap_source)[2],
         sitemap_source |-> data.sitemap_source,
         has_old_equivalent |-> IF has_old(path) THEN "yes" ELSE "no",
         old_site_path |-> IF has_old(path) THEN path ELSE old_match,
         notes |-> ""]

\* lines 519-555: one row per new-site path, in sorted(new_urls.items()) order
BuildNewInventory ==
    /\ pc = "new_inventory"
    /\ LET paths == SortStrings(Keys(new_urls))
       IN  new_records' = [i \in 1..Len(paths) |->
                              new_record(paths[i], DictGet(new_urls, paths[i]))]
    /\ pc' = "done"
    /\ UNCHANGED <<nrows, old_sitemap_urls, gsc_folder, gsc_statuses,
                   rankmath_redirects, ta_links, new_file, new_urls, all_old, idx,
                   old_records, gsc_log, rm_log, new_log>>
    /\ UNCHANGED fnVars

(***************************************************************************)
(* The run of main().                                                      *)
(***************************************************************************)
PipeInit ==
    /\ pc = "old_sitemaps"
    /\ nrows = 0
    /\ old_sitemap_urls = <<>>
    /\ gsc_folder = 1
    /\ gsc_statuses = <<>>
    /\ rankmath_redirects = <<>>
    /\ ta_links = <<>>
    /\ new_file = 1
    /\ new_urls = <<>>
    /\ all_old = <<>>
    /\ idx = 1
    /\ old_records = <<>>
    /\ new_records = <<>>
    /\ gsc_log = <<>>
    /\ rm_log = <<>>
    /\ new_log = <<>>

FnIdle == arg = "" /\ res = <<>> /\ step = 0

Init == PipeInit /\ FnIdle

ReadOldSitemaps == \E loc \in OldSitemapLocs : ParseOldSitemapUrl(loc)

ReadGsc == \E row \in GscRows : ParseGscRow(row)

ReadRedirects == \E row \in RedirectRows : ParseRedirectRow(row)

ReadAffiliates == \E row \in AffiliateRows : ParseAffiliateRow(row)

ReadNewSitemaps == \E loc \in NewSitemapLocs : ParseNewSitemapUrl(loc)

Next ==
    \/ ReadOldSitemaps
    \/ OldSitemapsDone
    \/ ReadGsc
    \/ GscNextFolder
    \/ ListOldDirFails
    \/ ReadRedirects
    \/ RedirectsDone
    \/ ReadAffiliates
    \/ AffiliatesDone
    \/ ListNewDirFails
    \/ ReadNewSitemaps
    \/ NewNextFile
    \/ MergeSitemapEntry
    \/ MergeSitemapDone
    \/ MergeGscEntry
    \/ MergeGscDone
    \/ MergeRedirectEntry
    \/ MergeRedirectDone
    \/ MergeAffiliateEntry
    \/ MergeAffiliateDone
    \/ ClassifyAndEnrich
    \/ BuildNewInventory

Spec == Init /\ [][Next]_vars

(***************************************************************************)
(* The pure functions on their own: the input is drawn in the initial      *)
(* state and the function applied to it.                                   *)
(***************************************************************************)
\* the strings made of at most n tokens of T
RECURSIVE Strings(_, _)
Strings(T, n) ==
    IF n = 0 THEN {""}
    ELSE Strings(T, n - 1) \cup {s \o t : s \in Strings(T, n - 1), t \in T}

NormTokens == {"https://e.com/", "e.com", "/", "Foo", "b", "?x=1", "#f", " "}

NormaliseInit == PipeInit /\ arg \in Strings(NormTokens, MaxTokens) /\ res = <<>> /\ step = 0

\* normalise_path(u)
ApplyNormalise ==
    /\ step = 0
    /\ res' = <<normalise_path(arg)>>
    /\ step' = 1
    /\ UNCHANGED <<arg, pipeVars>>

\* normalise_path(normalise_path(u)), when the first call returned
ReapplyNormalise ==
    /\ step = 1
    /\ res[1] # ValueError
    /\ res' = Append(res, normalise_path(res[1]))
    /\ step' = 2
    /\ UNCHANGED <<arg, pipeVars>>

NormaliseNext == ApplyNormalise \/ ReapplyNormalise

SpecNormalise == NormaliseInit /\ [][NormaliseNext]_vars

ClassifyTokens == {"/products/", "/tool/", "finder", "comparison", "deals",
                   "coupons", "calculator", "/go/", "/recommends/", "/author/",
                   "/page/", "/electric-scooters", "/reviews", "/compare/",
                   "/about", "/login", "/blog/", "/review/", "/feed", "/",
                   "-review", "/best-", "x"}

ClassifyInit ==
    PipeInit /\ arg \in Strings(ClassifyTokens, MaxTokens) /\ res = <<>> /\ step = 0

\* classify_old_url(path)
ApplyClassify ==
    /\ step = 0
    /\ res' = <<classify_old_url(arg)>>
    /\ step' = 1
    /\ UNCHANGED <<arg, pipeVars>>

ClassifyNext == ApplyClassify

SpecClassify == ClassifyInit /\ [][ClassifyNext]_vars

\* new-site paths given to the matcher
MatcherNewPaths ==
    {"/tools/electric-scooter-laws-by-state", "/tools/electric-bike-laws-by-state",
     "/tools/electric-scooter-range-calculator",
     "/tools/battery-charging-time-calculator", "/tools/x-finder",
     "/coupons/x-finder", "/compare/x-finder", "/deals/x-finder",
     "/reviews", "/editorial", "/x-finder", "/x"}

\* old-site paths that may exist
MatcherOldPaths ==
    {"/tool/electric-scooter-laws-by-state", "/tool/electric-bike-laws-by-state",
     "/tool/electric-scooter-range-calculator", "/electric-scooter-range-calculator",
     "/tool/battery-charge-time-calculator", "/tool/x-finder",
     "/tool/coupons/x-finder", "/tool/x-finder-coupons",
     "/tool/compare/x-finder", "/tool/x-finder-comparison",
     "/tool/deals/x-finder", "/tool/x-finder-deals",
     "/electric-scooters/reviews", "/editorial-policy"}

\* every old-site sitemap path has a record in all_old (lines 374-376)
MatcherInit ==
    /\ PipeInit
    /\ \E all \in {S \in SUBSET MatcherOldPaths : Cardinality(S) <= MaxOldPaths} :
       \E sm \in SUBSET all :
       \E np \in MatcherNewPaths :
          arg = [new_path |-> np, old_sitemap_paths |-> sm, all_old_paths |-> all]
    /\ res = <<>>
    /\ step = 0

\* find_old_equivalent(new_path, old_sitemap_urls, all_old)
ApplyFindOldEquivalent ==
    /\ step = 0
    /\ res' = <<find_old_equivalent(arg.new_path, arg.old_sitemap_paths,
                                    arg.all_old_paths)>>
    /\ step' = 1
    /\ UNCHANGED <<arg, pipeVars>>

MatcherNext == ApplyFindOldEquivalent

SpecMatcher == MatcherInit /\ [][MatcherNext]_vars

(***************************************************************************)
(* Properties.                                                             *)
(***************************************************************************)
AllowedHosts == {"eridehero.com", "www.eridehero.com"}

AfterGscMerge == pc \in {"merge_rankmath", "merge_ta", "enrich", "new_inventory", "done"}

AfterRedirectMerge == pc \in {"merge_ta", "enrich", "new_inventory", "done"}

\* a GSC row on an allow-listed host that the junk filter lets through
ValidGscRow(e) ==
    urlparse(e.raw_url).hostname \in AllowedHosts /\ ~is_gsc_junk(e.raw_url)

\* C1: once the GSC merge is over, the record of a path that has a valid row
\* under "Indexed pages" and a valid row under another label has the crawl
\* status "indexed", whatever the order of the rows.
C1_IndexedWins ==
    AfterGscMerge =>
        \A i, j \in 1..Len(gsc_log) :
            LET a == gsc_log[i]
                b == gsc_log[j]
                p == normalise_path(a.raw_url)
            IN  (/\ ValidGscRow(a) /\ ValidGscRow(b)
                 /\ a.status = "indexed" /\ b.status # "indexed"
                 /\ normalise_path(b.raw_url) = p)
                => (DictHas(all_old, p) => DictGet(all_old, p).gsc_status = "indexed")

\* C2: normalising an already normalised path returns it unchanged.
C2_Idempotent == step = 2 => res[2] = res[1]

NoOldEquivalentPaths ==
    {"/tools/electric-scooter-laws-by-state", "/tools/electric-bike-laws-by-state"}

\* C3: for a new path /tools/S whose slug the rename table maps to "no old
\* equivalent", the matcher returns no candidate, whatever old paths exist.
C3_NoCandidateForNone ==
    (step = 1 /\ arg.new_path \in NoOldEquivalentPaths) => res[1] = <<>>

\* the new-site <loc> rows that mention path p, by position in the input
MentionsOf(p) == {i \in 1..Len(new_log) : normalise_path(new_log[i].url) = p}

FirstFileOf(p) == new_log[CHOOSE i \in MentionsOf(p) : \A j \in MentionsOf(p) : i <= j].file

LastFileOf(p) == new_log[CHOOSE i \in MentionsOf(p) : \A j \in MentionsOf(p) : j <= i].file

IsCanonicalPath(k) ==
    /\ k = Lower(k)
    /\ StartsWith(k, "/")
    /\ (k = "/" \/ ~EndsWith(k, "/"))

\* C5: every key of the old-site record map is a canonical path: lowercase,
\* with a leading slash and no trailing slash unless it is "/".
C5_KeysCanonical == \A i \in 1..Len(all_old) : IsCanonicalPath(all_old[i].k)

\* the source of a rule as a lowercase leading-slash path
RuleKey(source) == Lower("/" \o Strip(source, "/"))

RulesOf(r) == {i \in 1..Len(rm_log) : RuleKey(rm_log[i].source_raw) = r}

LastRuleOf(r) == rm_log[CHOOSE i \in RulesOf(r) : \A j \in RulesOf(r) : j <= i]

\* C6: once the redirect merge is over, every rule source path has exactly
\* one record, with has_rankmath_redirect = yes and the destination and type
\* of the last rule read for that path; the finished report has exactly one
\* such row.
C6_RedirectAttached ==
    AfterRedirectMerge =>
        \A n \in 1..Len(rm_log) :
            LET r    == RuleKey(rm_log[n].source_raw)
                last == LastRuleOf(r)
                at   == {i \in 1..Len(all_old) : all_old[i].k = r}
                rows == {i \in 1..Len(old_records) : old_records[i].path = r}
            IN  /\ Cardinality(at) = 1
                /\ \A i \in at :
                      /\ all_old[i].v.has_rankmath_redirect = "yes"
                      /\ all_old[i].v.rankmath_dest = last.destination
                      /\ all_old[i].v.rankmath_type = last.type
                /\ pc = "done" =>
                      /\ Cardinality(rows) = 1
                      /\ \A i \in rows :
                            /\ old_records[i].has_rankmath_redirect = "yes"
                            /\ old_records[i].rankmath_dest = last.destination
                            /\ old_records[i].rankmath_type = last.type

\* a finished run with two rules of one source path and different
\* destinations, the path being known from the redirect export only
C6_Witness ==
    /\ pc = "done"
    /\ Len(rm_log) = 2
    /\ RuleKey(rm_log[1].source_raw) = RuleKey(rm_log[2].source_raw)
    /\ rm_log[1].destination # rm_log[2].destination
    /\ Len(old_records) = 1
    /\ old_records[1].sources = "rankmath-redirect-source"

InNewSitemap(p) == \E i \in 1..Len(new_log) : normalise_path(new_log[i].url) = p

OldRowSaysOnNew(p) ==
    \E i \in 1..Len(old_records) :
        old_records[i].path = p /\ old_records[i].exists_on_new_site = "yes"

NewRowSaysOnOld(p) ==
    \E i \in 1..Len(new_records) :
        /\ new_records[i].path = p
        /\ new_records[i].has_old_equivalent = "yes"
        /\ new_records[i].old_site_path = p

\* the second half of C7: a new-site row whose path has no old-site record
\* and no candidate says has_old_equivalent = no with an empty old_site_path
NoCounterpartRows ==
    \A i \in 1..Len(new_records) :
        LET q == new_records[i].path IN
        (/\ ~DictHas(all_old, q)
         /\ find_old_equivalent(q, Keys(old_sitemap_urls), Keys(all_old)) = <<>>)
        => new_records[i].has_old_equivalent = "no" /\ new_records[i].old_site_path = ""

\* C7 as claimed: in a finished run, every path that is in an old-site
\* sitemap and in a new-site sitemap is marked present on the other site in
\* both reports, and a new path without counterpart or candidate is not.
C7_EndToEnd ==
    pc = "done" =>
        /\ \A i \in 1..Len(old_sitemap_urls) :
              InNewSitemap(old_sitemap_urls[i].k)
              => /\ OldRowSaysOnNew(old_sitemap_urls[i].k)
                 /\ NewRowSaysOnOld(old_sitemap_urls[i].k)
        /\ NoCounterpartRows

IsPagePath(p) == ~EndsWith(p, ".xml") /\ ~EndsWith(p, ".kml")

\* C7 amended: the same for every path that does not end in .xml or .kml.
C7_EndToEndPages ==
    pc = "done" =>
        /\ \A i \in 1..Len(old_sitemap_urls) :
              (InNewSitemap(old_sitemap_urls[i].k) /\ IsPagePath(old_sitemap_urls[i].k))
              => /\ OldRowSaysOnNew(old_sitemap_urls[i].k)
                 /\ NewRowSaysOnOld(old_sitemap_urls[i].k)
        /\ NoCounterpartRows

\* a finished run with a page in both sitemaps and marked so in both reports
C7_Witness ==
    /\ pc = "done"
    /\ DictHas(old_sitemap_urls, "/foo")
    /\ InNewSitemap("/foo")
    /\ OldRowSaysOnNew("/foo")
    /\ NewRowSaysOnOld("/foo")

InTool(p) == StartsWith(p, "/tool/") \/ StartsWith(p, "/tools/")

\* the rules of the old-site classifier in priority order: predicate k
RuleHolds(k, p) ==
    CASE k = 1  -> StartsWith(p, "/products/")
      [] k = 2  -> InTool(p) /\ Contains(p, "finder")
      [] k = 3  -> InTool(p) /\ Contains(p, "comparison")
      [] k = 4  -> InTool(p) /\ Contains(p, "deals")
      [] k = 5  -> InTool(p) /\ Contains(p, "coupons")
      [] k = 6  -> InTool(p) /\ Contains(p, "calculator")
      [] k = 7  -> InTool(p)
      [] k = 8  -> StartsWith(p, "/go/")
      [] k = 9  -> StartsWith(p, "/recommends/")
      [] k = 10 -> StartsWith(p, "/author/") /\ Contains(p, "/page/")
      [] k = 11 -> StartsWith(p, "/author/")
      [] k = 12 -> p \in CategoryPaths
      [] k = 13 -> IsSubCategoryArchive(p)
      [] k = 14 -> Contains(p, "/page/")
      [] k = 15 -> StartsWith(p, "/compare/")
      [] k = 16 -> StartsWith(p, "/deals/")
      [] k = 17 -> p \in InfoPaths
      [] k = 18 -> StartsWith(p, "/login") \/ StartsWith(p, "/log-in")
      [] k = 19 -> StartsWith(p, "/blog/")
      [] k = 20 -> StartsWith(p, "/review/")
      [] k = 21 -> EndsWith(p, "/feed") \/ Contains(p, "feed/")
      [] k = 22 -> p = "/" \/ p = ""
      [] k = 23 -> EndsWith(p, "-review") \/ EndsWith(p, "-review/")
      [] k = 24 -> \E w \in ListiclePrefixes : StartsWith(p, "/" \o w)
      [] k = 25 -> IsSingleSegment(p)
      [] k = 26 -> TRUE

\* the result of rule k
RuleResults ==
    <<<<"product", "Products">>,
      <<"tool", "Tools ~ Finders">>,
      <<"tool", "Tools ~ Comparison">>,
      <<"tool", "Tools ~ Deals">>,
      <<"tool", "Tools ~ Coupons">>,
      <<"tool", "Tools ~ Calculators">>,
      <<"tool", "Tools ~ Other">>,
      <<"affiliate-redirect", "Affiliate Redirects (/go/)">>,
      <<"affiliate-redirect", "Affiliate Redirects (/recommends/)">>,
      <<"author-pagination", "Author Pages ~ Pagination">>,
      <<"author", "Author Pages">>,
      <<"category", "Category Archives">>,
      <<"archive", "Sub-category Archives">>,
      <<"pagination", "Pagination">>,
      <<"compare", "Compare Pages">>,
      <<"deals", "Deals Pages">>,
      <<"page", "Info / Legal Pages">>,
      <<"page", "Login / Auth Pages">>,
      <<"post", "Posts (blog/ prefix ~ old URL)">>,
      <<"post", "Posts (review/ prefix ~ old URL)">>,
      <<"feed", "RSS Feeds">>,
      <<"page", "Homepage">>,
      <<"post", "Reviews">>,
      <<"post", "Guides / Listicles">>,
      <<"post", "Posts ~ Other">>,
      <<"unknown", "Uncategorised">>>>

FirstRule(p) ==
    CHOOSE k \in 1..Len(RuleResults) :
        RuleHolds(k, p) /\ \A j \in 1..(k - 1) : ~RuleHolds(j, p)

\* C8: the class of a path is the result of the first rule, in priority
\* order, whose predicate holds; so a path under /tool/ that contains
\* "finder" is a finder tool, and a single-segment path with a listicle
\* prefix that no earlier rule matches is a guide, not a generic post.
C8_FirstMatchWins ==
    step = 1 =>
        LET p == Lower(arg) IN
        /\ res[1] = RuleResults[FirstRule(p)]
        /\ (StartsWith(p, "/tool/") /\ Contains(p, "finder"))
           => res[1] = <<"tool", "Tools ~ Finders">>
        /\ (FirstRule(p) >= 24 /\ IsSingleSegment(p)
            /\ \E w \in ListiclePrefixes : StartsWith(p, "/" \o w))
           => res[1] = <<"post", "Guides / Listicles">>

\* a single-segment listicle path, classified as a guide
C8_Witness ==
    /\ step = 1
    /\ StartsWith(arg, "/best-")
    /\ IsSingleSegment(arg)
    /\ FirstRule(arg) = 24
    /\ res[1] = <<"post", "Guides / Listicles">>

TrackingParams == {"utm_source", "utm_medium", "utm_campaign", "affiliate", "gspk",
                   "gsxid", "trk", "ref", "fbclid", "stream"}

QueryKeys(raw) == Range(parse_qs_keys(urlparse(raw).query))

IsModerationLink(raw) == Contains(raw, "unapproved=") \/ Contains(raw, "moderation-hash=")

\* junk as the claim has it: the search and tracking tests on any path
JunkOnAnyPath(raw) ==
    \/ IsModerationLink(raw)
    \/ Contains(raw, "cx_tag_filter")
    \/ "s" \in QueryKeys(raw) \/ "page_posts" \in QueryKeys(raw)
    \/ (QueryKeys(raw) # {} /\ QueryKeys(raw) \subseteq TrackingParams)

\* junk as amended: the search and tracking tests on the path "/" only
JunkOnRootOnly(raw) ==
    \/ IsModerationLink(raw)
    \/ Contains(raw, "cx_tag_filter")
    \/ /\ urlparse(raw).path = "/"
       /\ \/ "s" \in QueryKeys(raw) \/ "page_posts" \in QueryKeys(raw)
          \/ (QueryKeys(raw) # {} /\ QueryKeys(raw) \subseteq TrackingParams)

MergingGscEntry == pc = "merge_gsc" /\ idx <= Len(gsc_statuses)

\* C9 as claimed: the merge of a crawl-status entry whose raw URL is junk,
\* whatever its path, leaves the old-site records as they are.
C9_JunkAddsNothing ==
    [][(MergingGscEntry /\ JunkOnAnyPath(gsc_statuses[idx].v.raw_url))
       => all_old' = all_old]_vars

\* C9 amended: the merge of a crawl-status entry that is a moderation or
\* cx_tag_filter link, or whose path is "/" with a search query or a
\* tracking-only query, leaves the old-site records as they are.
C9_RootJunkAddsNothing ==
    [][(MergingGscEntry /\ JunkOnRootOnly(gsc_statuses[idx].v.raw_url))
       => all_old' = all_old]_vars

\* the merge has just passed over a junk entry of an allow-listed host
C9_Witness ==
    /\ pc = "merge_gsc"
    /\ idx > 1
    /\ JunkOnRootOnly(gsc_statuses[idx - 1].v.raw_url)
    /\ urlparse(gsc_statuses[idx - 1].v.raw_url).hostname \in AllowedHosts
    /\ IsModerationLink(gsc_statuses[idx - 1].v.raw_url)

\* C10: no input makes the run abort.
C10_NeverAborts == pc # "aborted"

MergingOldSite == pc \in {"merge_sitemap", "merge_gsc", "merge_rankmath", "merge_ta"}

\* the fields that, once non-empty, are to stay as they are
SetOnceFields ==
    {"path", "raw_url", "has_rankmath_redirect", "rankmath_dest", "rankmath_type",
     "is_thirstyaffiliate", "ta_name", "ta_dest_url"}

\* record b is record a, enriched: no tag lost, no set field changed, and
\* the crawl status with its date changed only from non-indexed to indexed
OnlyEnriched(a, b) ==
    /\ a.sources \subseteq b.sources
    /\ \A f \in SetOnceFields : a[f] # "" => b[f] = a[f]
    /\ a.gsc_status # "" =>
          \/ b.gsc_status = a.gsc_status /\ b.gsc_last_crawled = a.gsc_last_crawled
          \/ a.gsc_status # "indexed" /\ b.gsc_status = "indexed"

\* C11: every step of the four merge loops keeps every record at its key and
\* only enriches it: tags are only added, a non-empty field keeps its value,
\* and the crawl status and its date change only from a non-indexed status
\* to "indexed", never once the status is "indexed".
C11_OnlyEnriched ==
    [][MergingOldSite =>
          /\ Len(all_old') >= Len(all_old)
          /\ \A i \in 1..Len(all_old) :
                /\ all_old'[i].k = all_old[i].k
                /\ OnlyEnriched(all_old[i].v, all_old'[i].v)]_vars

\* the old-site path that heuristic k proposes for the new path p, "" if the
\* heuristic does not apply
HeuristicTarget(k, p) ==
    CASE k = 1  -> IF StartsWith(p, "/tools/") THEN "/tool/" \o Drop(p, 7) ELSE ""
      [] k = 2  -> IF StartsWith(p, "/tools/") /\ Drop(p, 7) \in DOMAIN renames
                      /\ renames[Drop(p, 7)] # ""
                   THEN "/tool/" \o renames[Drop(p, 7)] ELSE ""
      [] k = 3  -> IF p = "/reviews" THEN "/electric-scooters/reviews" ELSE ""
      [] k = 4  -> IF p = "/articles" THEN "/electric-scooters/articles" ELSE ""
      [] k = 5  -> IF p = "/buying-guides" THEN "/electric-scooters/buying-guides"
                   ELSE ""
      [] k = 6  -> IF p = "/editorial" THEN "/editorial-policy" ELSE ""
      [] k = 7  -> IF p = "/terms" THEN "/terms-conditions" ELSE ""
      [] k = 8  -> IF p = "/privacy" THEN "/privacy-policy" ELSE ""
      [] k = 9  -> IF StartsWith(p, "/deals/")
                   THEN "/tool/" \o Singular(p, "/deals/") \o "-deals" ELSE ""
      [] k = 10 -> IF EndsWith(p, "-finder") /\ ~StartsWith(p, "/tool")
                   THEN "/tool/" \o Strip(p, "/") ELSE ""
      [] k = 11 -> IF p = "/tools/electric-scooter-range-calculator"
                   THEN "/electric-scooter-range-calculator" ELSE ""
      [] k = 12 -> IF StartsWith(p, "/coupons/")
                   THEN "/tool/" \o Singular(p, "/coupons/") \o "-coupons" ELSE ""
      [] k = 13 -> IF StartsWith(p, "/compare/")
                   THEN "/tool/" \o Singular(p, "/compare/") \o "-comparison" ELSE ""

\* the order as claimed: tools, renames, hub roots, legal slugs, the three
\* category directories, and the finder mapping last
ClaimedOrder == <<1, 2, 11, 3, 4, 5, 6, 7, 8, 9, 12, 13, 10>>

\* the order as amended: the finder mapping and the range-calculator post
\* mapping come after deals and before coupons and compare
AmendedOrder == <<1, 2, 3, 4, 5, 6, 7, 8, 9, 10, 11, 12, 13>>

\* the existing targets of the heuristics of order, from position n on
RECURSIVE CandidatesFrom(_, _, _, _)
CandidatesFrom(order, n, p, olds) ==
    IF n > Len(order) THEN <<>>
    ELSE (IF HeuristicTarget(order[n], p) \in olds
          THEN <<HeuristicTarget(order[n], p)>> ELSE <<>>)
         \o CandidatesFrom(order, n + 1, p, olds)

MatcherOlds == arg.old_sitemap_paths \cup arg.all_old_paths

\* for /tools/X with the old path /tool/X known, /tool/X is the first candidate
ToolFirst ==
    (StartsWith(Lower(arg.new_path), "/tools/")
     /\ ("/tool/" \o Drop(Lower(arg.new_path), 7)) \in MatcherOlds)
    => (res[1] # <<>> /\ res[1][1] = "/tool/" \o Drop(Lower(arg.new_path), 7))

\* C12 as claimed: the candidates are the existing targets of the heuristics
\* in the claimed order, with the finder mapping last, and /tool/X is the
\* first candidate of /tools/X.
C12_ClaimedOrder ==
    step = 1 =>
        /\ res[1] = CandidatesFrom(ClaimedOrder, 1, Lower(arg.new_path), MatcherOlds)
        /\ ToolFirst

\* C12 amended: the candidates are the existing targets of the heuristics in
\* the order tools, renames, hub roots, legal slugs, deals, finder,
\* range-calculator post, coupons, compare; so the finder candidate follows
\* the deals candidate and precedes the coupons and compare candidates; and
\* /tool/X is the first candidate of /tools/X.
C12_AmendedOrder ==
    step = 1 =>
        /\ res[1] = CandidatesFrom(AmendedOrder, 1, Lower(arg.new_path), MatcherOlds)
        /\ ToolFirst
        /\ (arg.new_path = "/deals/x-finder"
            /\ {"/tool/x-finder-deals", "/tool/deals/x-finder"} \subseteq MatcherOlds)
           => res[1] = <<"/tool/x-finder-deals", "/tool/deals/x-finder">>
        /\ (arg.new_path = "/coupons/x-finder"
            /\ {"/tool/x-finder-coupons", "/tool/coupons/x-finder"} \subseteq MatcherOlds)
           => res[1] = <<"/tool/coupons/x-finder", "/tool/x-finder-coupons">>
        /\ (arg.new_path = "/compare/x-finder"
            /\ {"/tool/x-finder-comparison", "/tool/compare/x-finder"}
                  \subseteq MatcherOlds)
           => res[1] = <<"/tool/compare/x-finder", "/tool/x-finder-comparison">>

\* the matcher has returned two candidates for /coupons/x-finder
C12_Witness ==
    /\ step = 1
    /\ arg.new_path = "/coupons/x-finder"
    /\ Len(res[1]) = 2
    /\ res[1][1] = "/tool/coupons/x-finder"

ReportPaths ==
    {old_records[i].path : i \in 1..Len(old_records)}
    \cup {new_records[i].path : i \in 1..Len(new_records)}

NewRowHasOld(p) ==
    \E i \in 1..Len(new_records) :
        new_records[i].path = p /\ new_records[i].has_old_equivalent = "yes"

\* C13: in a finished run, the old-site report has a row for p with
\* exists_on_new_site = yes exactly when the new-site report has a row for p
\* with has_old_equivalent = yes, whatever source made p known on the old
\* site.
C13_Symmetric ==
    pc = "done" => \A p \in ReportPaths : OldRowSaysOnNew(p) <=> NewRowHasOld(p)

\* the GSC merge is over and the records still hold their tag sets
GscMerged == pc \in {"merge_rankmath", "merge_ta", "enrich"}

\* C14: once the GSC merge is over, every crawl-status row read on an
\* allow-listed host that is not junk has a record at its canonical path,
\* and the record carries the tag of the row's status label, whatever rows
\* of the same host and path were read before it.
C14_EveryValidRowTagged ==
    GscMerged =>
        \A i \in 1..Len(gsc_log) :
            ValidGscRow(gsc_log[i]) =>
                /\ DictHas(all_old, normalise_path(gsc_log[i].raw_url))
                /\ ("gsc:" \o gsc_log[i].status)
                      \in DictGet(all_old, normalise_path(gsc_log[i].raw_url)).sources

====
